---------------------------- MODULE Spec2Model ----------------------------
(***************************************************************************)
(* A model of the GTFS realtime departure board of ha-gtfs-rt-v2.          *)
(*                                                                         *)
(* Two data sources live in the repository and both are modelled:          *)
(*   - PublicTransportData.py: PublicTransportData.update builds a pandas  *)
(*     dataframe (info_df) from the static timetable and the live feeds,   *)
(*     and filter_df answers the queries;                                  *)
(*   - sensor.py: PublicTransportData._update_route_statuses builds the    *)
(*     dictionary info[route][direction][stop] the sensors read.           *)
(* Spec is the life of the first, SensorSpec the life of the second.       *)
(***************************************************************************)
EXTENDS Integers, Sequences, FiniteSets, TLC

VARIABLES
    clock,           \* epoch seconds: datetime.today() / utcnow()
    ticks,           \* how many times the clock has advanced (bounded)
    throttle_lock,   \* Throttle: whether a call holds the lock
    throttle_last,   \* Throttle: time of the last completed call, 0 for None
    CachedGTFSData,  \* PublicTransportData.CachedGTFSData: the cache slot
    info_df,         \* PublicTransportData.info_df: the published board
    pc,              \* position of the running pass inside update()
    local,           \* the running pass's local variables
    hist,            \* observations: fetch counters, dates built
    ret,             \* what the last operation returned or raised
    info,            \* sensor.py: PublicTransportData.info
    sensor_last      \* sensor.py: Throttle's last completed call, 0 for None

vars == <<clock, ticks, throttle_lock, throttle_last, CachedGTFSData, info_df,
          pc, local, hist, ret, info, sensor_last>>

---------------------------------------------------------------------------
(* Bounds of the model. *)

MaxTicks == 3
NumSensors == 2

Sensors == 1..NumSensors

---------------------------------------------------------------------------
(* Program constants. *)

MIN_TIME_BETWEEN_UPDATES == 60
SecondsPerDay == 86400
DefaultLimit == 30
\* the epoch of a local midnight: datetime.combine(now, datetime.min.time())
MidnightBase == 1700000000

\* pandas' missing value in a numeric column (NaN) and in an object column
NaN == 0 - 2000000000
NA == "<NA>"

\* NaN propagates through pandas' arithmetic
Add(a, b) == IF a = NaN \/ b = NaN THEN NaN ELSE a + b

\* Series.fillna(value)
fillna(x, value) == IF x = NaN THEN value ELSE x

\* Series.mask(lambda x: x == 0): zero becomes NaN
mask_zero(x) == IF x = 0 THEN NaN ELSE x

\* Series.astype(str): a missing value becomes the string "nan"
astype_str(x) == IF x = NA THEN "nan" ELSE x

\* Series.fillna on an object column
fillna_str(x, value) == IF x = NA THEN value ELSE x

\* midnight = datetime.combine(now, datetime.min.time())
Midnight(t) == MidnightBase + ((t - MidnightBase) \div SecondsPerDay) * SecondsPerDay

\* the clock starts at 08:14:00 of the base day
StartClock == MidnightBase + 8 * 3600 + 14 * 60

\* How far one advance of the clock goes: 20 s, 41 s or a day.  While a
\* pass waits for an answer only the 20 s go by, the longest timeout.
FetchTimeout == 20
Steps == {FetchTimeout, 41, SecondsPerDay}


---------------------------------------------------------------------------
(* Sequence helpers. *)

RECURSIVE Flatten(_)
Flatten(ss) == IF ss = <<>> THEN <<>> ELSE Head(ss) \o Flatten(Tail(ss))

Range(s) == {s[i] : i \in 1..Len(s)}

---------------------------------------------------------------------------
(* The static timetable: StaticTimetable.py.                                *)

\* "HH:MM:SS" of stop_times.txt, held as <<HH, MM, SS>>, to seconds since
\* the service day's midnight
time_to_seconds(hms) == hms[1] * 3600 + hms[2] * 60 + hms[3]

\* What the static URL may answer.  A body is the name of an archive, or what
\* is wrong with it.
ArchiveBodies == {"A1", "A2"}
StaticResponses ==
    {[kind |-> "timeout", status |-> 0, body |-> "none"]}
    \cup [kind : {"response"}, status : {200, 500},
          body : ArchiveBodies \cup {"notzip"}]
    \cup [kind : {"response"}, status : {200}, body : {"badcsv", "no_stops"}]

\* stop_times.txt and trips.txt of the two archives
StopTimesOf(body) ==
    IF body = "A1"
    THEN << [trip_id |-> "T1", stop_id |-> "A", stop_sequence |-> 1,
             arrival_time |-> <<8, 15, 0>>, departure_time |-> <<8, 15, 30>>],
            [trip_id |-> "T1", stop_id |-> "B", stop_sequence |-> 2,
             arrival_time |-> <<8, 16, 0>>, departure_time |-> <<8, 16, 30>>],
            [trip_id |-> "T2", stop_id |-> "A", stop_sequence |-> 1,
             arrival_time |-> <<8, 14, 15>>, departure_time |-> <<8, 14, 20>>] >>
    ELSE << [trip_id |-> "T1", stop_id |-> "A", stop_sequence |-> 1,
             arrival_time |-> <<8, 15, 0>>, departure_time |-> <<8, 15, 30>>],
            [trip_id |-> "T1", stop_id |-> "C", stop_sequence |-> 3,
             arrival_time |-> <<8, 20, 0>>, departure_time |-> <<8, 20, 30>>],
            [trip_id |-> "T4", stop_id |-> "B", stop_sequence |-> 1,
             arrival_time |-> <<32, 14, 45>>, departure_time |-> <<32, 15, 0>>] >>

TripsOf(body) ==
    << [trip_id |-> "T1", route_id |-> "R1", direction_id |-> 0],
       [trip_id |-> "T2", route_id |-> "R2", direction_id |-> 1],
       [trip_id |-> "T4", route_id |-> "R2", direction_id |-> 1] >>

\* The answers that hold no usable archive: none in time, a body that is no
\* archive, a table that does not parse, a table that is missing
Unusable(resp) ==
    resp.kind = "timeout" \/ resp.body \in {"notzip", "badcsv", "no_stops"}

\* get_dataframes with its failures caught: what was read so far is returned
get_dataframes_swallow(resp) ==
    [raised |-> FALSE,
     dataframes |-> [stop_times |-> IF Unusable(resp) THEN <<>>
                                    ELSE StopTimesOf(resp.body),
                     trips |-> TripsOf(resp.body),
                     stops |-> TRUE,
                     archive |-> resp.body]]

\* get_dataframes(url): the GET has a timeout and raises when it expires, the
\* status code is logged and never tested, ZipFile raises on a body that is
\* no archive and read_csv on a table it cannot parse.  Nothing is caught.
get_dataframes(resp) ==
    IF resp.kind = "timeout" \/ resp.body \in {"notzip", "badcsv"}
    THEN [raised |-> TRUE, dataframes |-> <<>>]
    ELSE [raised |-> FALSE,
          dataframes |-> [stop_times |-> StopTimesOf(resp.body),
                          trips |-> TripsOf(resp.body),
                          stops |-> resp.body # "no_stops",
                          archive |-> resp.body]]

\* departure_info: stop_times joined with trips on trip_id, the times turned
\* into seconds since midnight
DepartureInfoRow(st, tr) ==
    [trip_id |-> st.trip_id, stop_id |-> st.stop_id,
     stop_sequence |-> st.stop_sequence,
     route_id |-> tr.route_id, direction_id |-> tr.direction_id,
     scheduled_arrival_time |-> time_to_seconds(st.arrival_time),
     scheduled_departure_time |-> time_to_seconds(st.departure_time)]

BuildDepartureInfo(dataframes) ==
    Flatten([i \in 1..Len(dataframes.stop_times) |->
        LET st == dataframes.stop_times[i]
            m == SelectSeq(dataframes.trips, LAMBDA tr : tr.trip_id = st.trip_id)
        IN  [j \in 1..Len(m) |-> DepartureInfoRow(st, m[j])]])

\* GTFSCache(): an empty slot
NoSnapshot == [date |-> 0, archive |-> "none", departure_info |-> <<>>]
GTFSCache == NoSnapshot

\* The date a load asks for
Today(t) == Midnight(t)

\* StaticMasterGTFSInfo(url, CachedData): the cached snapshot when its date
\* is today's; else the tables are fetched, the snapshot is built and stored.
\* A failure raises before anything is stored.
StaticMasterGTFSInfo(resp, CachedData, date) ==
    IF CachedData.date = date
    THEN [raised |-> FALSE, fetched |-> FALSE, cache |-> CachedData]
    ELSE LET got == get_dataframes(resp) IN
         IF got.raised \/ ~got.dataframes.stops
         THEN [raised |-> TRUE, fetched |-> TRUE, cache |-> CachedData]
         ELSE [raised |-> FALSE, fetched |-> TRUE,
               cache |-> [date |-> date, archive |-> got.dataframes.archive,
                          departure_info |-> BuildDepartureInfo(got.dataframes)]]

---------------------------------------------------------------------------
(* The live feeds: get_gtfs_feed_entities, gtfs_data_to_df, get_live_data.  *)

\* One stop_time_update of a trip update
Stu(stop_id, seq, atime, adelay, dtime, ddelay) ==
    [stop_id |-> stop_id, stop_sequence |-> seq,
     arrival_time |-> atime, arrival_delay |-> adelay,
     departure_time |-> dtime, departure_delay |-> ddelay]

\* The trip-update feeds the endpoint may serve on the day whose midnight is
\* m.  start_date is the midnight of the declared date, 0 for an empty string.
\*   F1: trip T1 of the timetable, declared for yesterday, stop A with no
\*       arrival time and a delay of 120, stop B with an arrival time;
\*   F2: trip T3, unknown to the timetable, declared for today, and an entity
\*       that carries no trip update;
\*   F3: F1 with its two stop_time_updates in the other order;
\*   F4: trips T3 and T2 of one route, due at stop A 12 and 5 minutes
\*       after 08:14:00;
\*   F0: no entity;  FN: a trip that declares no start date.
TripFeed(name, m) ==
    CASE name = "F1" ->
        << [id |-> "e1", has_trip_update |-> TRUE, trip_id |-> "T1",
            route_id |-> "R1", start_date |-> m - SecondsPerDay,
            direction_id |-> 0, vehicle_id |-> "V1",
            stop_time_update |->
                << Stu("A", 1, 0, 120, 0, 150),
                   Stu("B", 2, m + 8 * 3600 + 17 * 60, 60, 0, 60) >>] >>
      [] name = "F2" ->
        << [id |-> "e2", has_trip_update |-> TRUE, trip_id |-> "T3",
            route_id |-> "R2-X", start_date |-> m,
            direction_id |-> 1, vehicle_id |-> "V3",
            stop_time_update |->
                << Stu("A", 1, m + 8 * 3600 + 15 * 60, 0 - 30,
                       m + 8 * 3600 + 15 * 60 + 10, 0),
                   Stu("B", 2, 0, 45, 0, 0) >>],
           [id |-> "e3", has_trip_update |-> FALSE, trip_id |-> "",
            route_id |-> "", start_date |-> 0,
            direction_id |-> 0, vehicle_id |-> "",
            stop_time_update |-> <<>>] >>
      [] name = "F3" ->
        << [id |-> "e1", has_trip_update |-> TRUE, trip_id |-> "T1",
            route_id |-> "R1", start_date |-> m - SecondsPerDay,
            direction_id |-> 0, vehicle_id |-> "V1",
            stop_time_update |->
                << Stu("B", 2, m + 8 * 3600 + 17 * 60, 60, 0, 60),
                   Stu("A", 1, 0, 120, 0, 150) >>] >>
      [] name = "F4" ->
        << [id |-> "e5", has_trip_update |-> TRUE, trip_id |-> "T3",
            route_id |-> "R2", start_date |-> m - SecondsPerDay,
            direction_id |-> 1, vehicle_id |-> "V3",
            stop_time_update |->
                << Stu("A", 1, m + 8 * 3600 + 26 * 60, 0, 0, 0) >>],
           [id |-> "e6", has_trip_update |-> TRUE, trip_id |-> "T2",
            route_id |-> "R2", start_date |-> m - SecondsPerDay,
            direction_id |-> 1, vehicle_id |-> "V2",
            stop_time_update |->
                << Stu("A", 1, m + 8 * 3600 + 19 * 60, 0, 0, 0) >>] >>
      [] name = "FN" ->
        << [id |-> "e4", has_trip_update |-> TRUE, trip_id |-> "T1",
            route_id |-> "R1", start_date |-> 0,
            direction_id |-> 0, vehicle_id |-> "V1",
            stop_time_update |-> << Stu("A", 1, 0, 0, 0, 0) >>] >>
      [] OTHER -> <<>>

\* The vehicle-position feeds: V1 has the vehicle of trip T1 and a vehicle
\* that is not in service; VE has no entity.
VehicleFeed(name) ==
    IF name = "V1"
    THEN << [id |-> "v1", trip_id |-> "T1", vehicle_id |-> "V1",
             latitude |-> "53.3", longitude |-> "-6.2"],
            [id |-> "v0", trip_id |-> "", vehicle_id |-> "V0",
             latitude |-> "53.0", longitude |-> "-6.0"] >>
    ELSE <<>>

\* What a live endpoint may answer: no answer in 20 s, or a status and a
\* body, which is a feed or bytes that are no feed message.
TripResponses ==
    {[kind |-> "timeout", status |-> 0, body |-> "none"]}
    \cup [kind : {"response"}, status : {200, 500}, body : {"F1", "malformed"}]
    \cup [kind : {"response"}, status : {200}, body : {"F2", "F0", "FN"}]

VehicleResponses ==
    {[kind |-> "timeout", status |-> 0, body |-> "none"]}
    \cup [kind : {"response"}, status : {200, 500}, body : {"V1", "malformed"}]
    \cup [kind : {"response"}, status : {200}, body : {"VE"}]

\* get_gtfs_feed_entities: requests.get raises at the timeout; a status other
\* than 200 is logged and the body is parsed all the same; ParseFromString
\* raises on bytes that are no feed message.
get_gtfs_feed_entities(resp, entities) ==
    IF resp.kind = "timeout" \/ resp.body = "malformed"
    THEN [raised |-> TRUE, status_ok |-> FALSE, entity |-> <<>>]
    ELSE [raised |-> FALSE, status_ok |-> resp.status = 200, entity |-> entities]

\* gtfs_data_to_df(entities, "trip"): one row per stop_time_update.
\* start_date is the declared date plus one day, as a timestamp.
TripRow(e, stop) ==
    [trip_id |-> e.trip_id, route_id |-> e.route_id,
     start_date |-> e.start_date + SecondsPerDay,
     direction_id |-> e.direction_id, vehicle_id |-> e.vehicle_id,
     real_time_update |-> "True",
     stop_id |-> stop.stop_id, stop_sequence |-> stop.stop_sequence,
     live_arrival_time |-> stop.arrival_time,
     arrival_delay |-> stop.arrival_delay,
     live_departure_time |-> stop.departure_time,
     departure_delay |-> stop.departure_delay]

\* strptime raises on an empty start_date, and df["direction_id"] raises
\* when no row was appended and the frame has no column
gtfs_data_to_df_trip(entities) ==
    LET rows == Flatten([i \in 1..Len(entities) |->
                    [j \in 1..Len(entities[i].stop_time_update) |->
                        TripRow(entities[i], entities[i].stop_time_update[j])]])
    IN  IF (\E i \in 1..Len(entities) : entities[i].start_date = 0) \/ rows = <<>>
        THEN [raised |-> TRUE, df |-> <<>>]
        ELSE [raised |-> FALSE, df |-> rows]

\* gtfs_data_to_df(entities, "vehicle"): the vehicles that are on a trip
gtfs_data_to_df_vehicle(entities) ==
    LET in_service == SelectSeq(entities, LAMBDA e : e.trip_id # "")
    IN  [i \in 1..Len(in_service) |->
            [trip_id |-> in_service[i].trip_id,
             vehicle_id |-> in_service[i].vehicle_id,
             vehicle_latitude |-> in_service[i].latitude,
             vehicle_longitude |-> in_service[i].longitude]]

\* pd.merge(left=trip_update_df, right=vehicle_info_df, how="left"): joined on
\* the columns the two frames share, trip_id and vehicle_id
LiveRow(t, lat, lon) ==
    [trip_id |-> t.trip_id, route_id |-> t.route_id,
     start_date |-> t.start_date, direction_id |-> t.direction_id,
     vehicle_id |-> t.vehicle_id, real_time_update |-> t.real_time_update,
     stop_id |-> t.stop_id, stop_sequence |-> t.stop_sequence,
     live_arrival_time |-> t.live_arrival_time,
     arrival_delay |-> t.arrival_delay,
     live_departure_time |-> t.live_departure_time,
     departure_delay |-> t.departure_delay,
     vehicle_latitude |-> lat, vehicle_longitude |-> lon]

merge_vehicles(trip_update_df, vehicle_info_df) ==
    Flatten([i \in 1..Len(trip_update_df) |->
        LET t == trip_update_df[i]
            m == SelectSeq(vehicle_info_df,
                           LAMBDA v : v.trip_id = t.trip_id
                                      /\ v.vehicle_id = t.vehicle_id)
        IN  IF m = <<>>
            THEN << LiveRow(t, NA, NA) >>
            ELSE [j \in 1..Len(m) |->
                    LiveRow(t, m[j].vehicle_latitude, m[j].vehicle_longitude)]])

---------------------------------------------------------------------------
(* The reconciliation: PublicTransportData.update, PublicTransportData.py.  *)

\* the trip ids of the model, in the order an outer merge sorts its keys
TripIds == << "T1", "T2", "T3", "T4" >>

\* str() of the small integers of the model
Str(n) ==
    CASE n = 0 -> "0" [] n = 1 -> "1" [] n = 2 -> "2" [] n = 3 -> "3"
      [] OTHER -> "nan"

\* str() of a column that the merge turned into floats
StrFloat(n) ==
    CASE n = 1 -> "1.0" [] n = 2 -> "2.0" [] n = 3 -> "3.0" [] OTHER -> "nan"

\* The delimiter the data source was constructed with (None: not configured)
route_delimiter == NA

\* column = column_x.astype(str).fillna(column_y.astype(str)): astype(str)
\* leaves no missing value for fillna to fill
coalesce(x, y) == fillna_str(astype_str(x), astype_str(y))

\* The left or right side of a row of the merge that has no such side
NoLive ==
    [trip_id |-> NA, route_id |-> NA, start_date |-> NaN,
     direction_id |-> NaN, vehicle_id |-> NA, real_time_update |-> NA,
     stop_id |-> NA, stop_sequence |-> NaN, live_arrival_time |-> NaN,
     arrival_delay |-> NaN, live_departure_time |-> NaN,
     departure_delay |-> NaN, vehicle_latitude |-> NA,
     vehicle_longitude |-> NA]

NoStatic ==
    [trip_id |-> NA, stop_id |-> NA, stop_sequence |-> NaN, route_id |-> NA,
     direction_id |-> NaN, scheduled_arrival_time |-> NaN,
     scheduled_departure_time |-> NaN]

\* an integer column as the merge holds it: missing, or its digits
IntCol(n) == IF n = NaN THEN NA ELSE Str(n)
FloatCol(n) == IF n = NaN THEN NA ELSE StrFloat(n)

\* One row of pd.merge(live_df, timetable_df, how="outer", on="trip_id",
\* indicator="source") after the duplicated columns are fixed.  has_na says
\* the merge left a missing value in the integer columns of the left side,
\* which makes them float columns.
MergedRow(l, t, has_na) ==
    [trip_id |-> IF l.trip_id # NA THEN l.trip_id ELSE t.trip_id,
     source |-> IF l.trip_id # NA /\ t.trip_id # NA THEN "both"
                ELSE IF l.trip_id # NA THEN "left_only" ELSE "right_only",
     stop_id |-> coalesce(l.stop_id, t.stop_id),
     route_id |-> coalesce(l.route_id, t.route_id),
     direction_id |-> coalesce(IntCol(l.direction_id), IntCol(t.direction_id)),
     stop_sequence |->
         coalesce(IF has_na THEN FloatCol(l.stop_sequence)
                            ELSE IntCol(l.stop_sequence),
                  IntCol(t.stop_sequence)),
     start_date |-> l.start_date,
     vehicle_id |-> l.vehicle_id,
     real_time_update |-> l.real_time_update,
     live_arrival_time |-> l.live_arrival_time,
     arrival_delay |-> l.arrival_delay,
     live_departure_time |-> l.live_departure_time,
     departure_delay |-> l.departure_delay,
     vehicle_latitude |-> l.vehicle_latitude,
     vehicle_longitude |-> l.vehicle_longitude,
     scheduled_arrival_time |-> t.scheduled_arrival_time,
     scheduled_departure_time |-> t.scheduled_departure_time,
     updated_arrival_time |-> NaN,
     updated_departure_time |-> NaN]

\* The join key of the merge: on="trip_id"
merge_key(l, t) == l.trip_id = t.trip_id

\* pd.merge(..., how="outer", on="trip_id"): per key, every pairing of a left
\* row with a right row; the rows of one side alone where the other has none
merge_outer(live_df, timetable_df) ==
    LET has_na == \E j \in 1..Len(timetable_df) :
                      \A i \in 1..Len(live_df) :
                          ~merge_key(live_df[i], timetable_df[j])
    IN Flatten([k \in 1..Len(TripIds) |->
        LET ls == SelectSeq(live_df, LAMBDA l : l.trip_id = TripIds[k])
            ts == SelectSeq(timetable_df, LAMBDA t : t.trip_id = TripIds[k])
        IN  Flatten([i \in 1..Len(ls) |->
                LET m == SelectSeq(timetable_df,
                                   LAMBDA t : merge_key(ls[i], t))
                IN  IF m = <<>>
                    THEN << MergedRow(ls[i], NoStatic, has_na) >>
                    ELSE [j \in 1..Len(m) |-> MergedRow(ls[i], m[j], has_na)]])
            \o
            Flatten([j \in 1..Len(ts) |->
                IF \E i \in 1..Len(live_df) : merge_key(live_df[i], ts[j])
                THEN <<>>
                ELSE << MergedRow(NoLive, ts[j], has_na) >>])])

\* updated_arrival_time with the delay left out of the sum
updated_arrival_time_no_delay(row) ==
    fillna(fillna(mask_zero(row.live_arrival_time),
                  Add(row.scheduled_arrival_time, row.start_date)),
           0)

\* updated_arrival_time = live_arrival_time.mask(== 0)
\*     .fillna(scheduled_arrival_time + start_date + arrival_delay).fillna(0)
updated_arrival_time(row) ==
    fillna(fillna(mask_zero(row.live_arrival_time),
                  Add(Add(row.scheduled_arrival_time, row.start_date),
                      row.arrival_delay)),
           0)

\* updated_departure_time, which adds arrival_delay as well
updated_departure_time(row) ==
    fillna(fillna(mask_zero(row.live_departure_time),
                  Add(Add(row.scheduled_departure_time, row.start_date),
                      row.arrival_delay)),
           0)

\* Lines 271-310: the missing start dates and delays filled, the two updated
\* times worked out
with_times(row, midnight) ==
    LET r1 == [row EXCEPT !.start_date = fillna(@, midnight),
                          !.arrival_delay = fillna(@, 0)]
    IN  [r1 EXCEPT !.updated_arrival_time = updated_arrival_time(r1),
                   !.updated_departure_time = updated_departure_time(r1)]

\* tomorrow_mask that holds of every row
tomorrow_mask_every_row(row, secs_since_midnight) == TRUE

\* tomorrow_mask = updated_arrival_time < secs_since_midnight
tomorrow_mask(row, secs_since_midnight) ==
    row.updated_arrival_time < secs_since_midnight

\* Lines 314-325: the rows of the mask get tomorrow's start_date and the
\* scheduled time of tomorrow; DataFrame.update skips the values that are NaN
tomorrow_services(row, secs_since_midnight, midnight_tomorrow) ==
    IF tomorrow_mask(row, secs_since_midnight)
    THEN [row EXCEPT
            !.start_date = midnight_tomorrow,
            !.updated_arrival_time =
                fillna(Add(midnight_tomorrow, row.scheduled_arrival_time), @)]
    ELSE row

\* not_in_the_past that lets every row through
not_in_the_past_all(row, now_secs) == TRUE

\* query("updated_arrival_time - {now_secs} >= 0")
not_in_the_past(row, now_secs) == row.updated_arrival_time - now_secs >= 0

\* Lines 226-335 of update(), with now = datetime.today()
reconcile(live_df, timetable_df, now_secs) ==
    LET midnight == Midnight(now_secs)
        secs_since_midnight == now_secs - midnight
        midnight_tomorrow == midnight + SecondsPerDay
        merged == merge_outer(live_df, timetable_df)
        timed == [i \in 1..Len(merged) |-> with_times(merged[i], midnight)]
        rolled == [i \in 1..Len(timed) |->
                     tomorrow_services(timed[i], secs_since_midnight,
                                       midnight_tomorrow)]
    IN  SelectSeq(rolled, LAMBDA row : not_in_the_past(row, now_secs))

\* Lines 340-349: the missing real_time_update becomes False, the missing
\* coordinates "-"
fill_empty(row) ==
    [row EXCEPT !.real_time_update = fillna_str(@, "False"),
                !.vehicle_latitude = fillna_str(@, "-"),
                !.vehicle_longitude = fillna_str(@, "-")]

---------------------------------------------------------------------------
(* The queries: PublicTransportData.filter_df.                              *)

\* pd.DataFrame(): the frame the data source is constructed with has no
\* column; a frame built by update() has them all
EmptyFrame == [columns |-> FALSE, rows |-> <<>>]
Frame(rows) == [columns |-> TRUE, rows |-> rows]

\* A filter value: None, a string or an integer
None == [kind |-> "none", s |-> "", n |-> 0]
S(str) == [kind |-> "str", s |-> str, n |-> 0]
N(int) == [kind |-> "int", s |-> "", n |-> int]

FilterKeys == {"stop_id", "route_id", "direction_id"}

\* "if value is not None or ''": only None is left out of the query
in_query(value) == value.kind # "none"

\* "{key} == {value!r}": the columns of the filter keys hold strings, which
\* equal no integer
matches(row, filters) ==
    \A key \in FilterKeys :
        in_query(filters[key]) =>
            (filters[key].kind = "str" /\ row[key] = filters[key].s)

\* sort_values(by=[order_by], ascending=order_ascending), rows of equal key
\* kept in the order they had
RECURSIVE insert_sorted(_, _, _, _)
insert_sorted(row, sorted, by, ascending) ==
    IF sorted = <<>> THEN << row >>
    ELSE IF (ascending /\ row[by] <= Head(sorted)[by])
            \/ (~ascending /\ row[by] >= Head(sorted)[by])
         THEN << row >> \o sorted
         ELSE << Head(sorted) >>
              \o insert_sorted(row, Tail(sorted), by, ascending)

RECURSIVE sort_values(_, _, _)
sort_values(rows, by, ascending) ==
    IF rows = <<>> THEN <<>>
    ELSE insert_sorted(Head(rows), sort_values(Tail(rows), by, ascending),
                       by, ascending)

\* head that hands out one row more than asked for
head_one_more(rows, limit) ==
    SubSeq(rows, 1, IF Len(rows) < limit + 1 THEN Len(rows) ELSE limit + 1)

\* head(limit)
head(rows, limit) == SubSeq(rows, 1, IF Len(rows) < limit THEN Len(rows) ELSE limit)

\* filter_df(filters, order_by, order_ascending, limit).  self.info_df[key]
\* raises on the frame without columns, and query("") on a query string
\* that no filter contributed to.
filter_df(df, filters, order_by, order_ascending, limit) ==
    IF (\E key \in FilterKeys : in_query(filters[key]) /\ ~df.columns)
       \/ (\A key \in FilterKeys : ~in_query(filters[key]))
    THEN [raised |-> TRUE, rows |-> <<>>]
    ELSE [raised |-> FALSE,
          rows |-> head(sort_values(
                            SelectSeq(df.rows, LAMBDA row : matches(row, filters)),
                            order_by, order_ascending),
                        limit)]

\* The query each sensor of the model sends
Filters(stop, route, direction) ==
    [stop_id |-> stop, route_id |-> route, direction_id |-> direction]

SensorQuery(s) ==
    CASE s = 1 -> [filters |-> Filters(S("A"), None, None),
                   ascending |-> TRUE, limit |-> DefaultLimit]
      [] s = 2 -> [filters |-> Filters(S("B"), S("R1"), None),
                   ascending |-> FALSE, limit |-> 1]
      [] OTHER -> [filters |-> Filters(None, None, None),
                   ascending |-> TRUE, limit |-> DefaultLimit]

---------------------------------------------------------------------------
(* The data source of PublicTransportData.py and its callers.               *)

MaxPasses == 2

NoLocal == [timetable_df |-> <<>>, live_df |-> <<>>, df |-> <<>>,
            bad_status |-> FALSE]

\* The arguments of a call of filter_df; NoQuery when the operation is none
QueryArgs(filters, order_by, order_ascending, limit) ==
    [filters |-> filters, order_by |-> order_by,
     order_ascending |-> order_ascending, limit |-> limit]

NoQuery == QueryArgs(Filters(None, None, None), "", TRUE, 0)

\* What the last operation was and what it gave back
\* static_failed: the static URL gave no usable archive in this step
\* q: the arguments of the query, when the operation is one
Ret(op, outcome, rows) ==
    [op |-> op, outcome |-> outcome, rows |-> rows, static_failed |-> FALSE,
     q |-> NoQuery]

Init ==
    /\ clock = StartClock
    /\ ticks = 0
    /\ throttle_lock = FALSE
    /\ throttle_last = 0
    /\ CachedGTFSData = GTFSCache
    /\ info_df = EmptyFrame
    /\ pc = "idle"
    /\ local = NoLocal
    /\ hist = [passes |-> 0, fetches |-> 0, built |-> {}, rebuilt |-> FALSE]
    /\ ret = Ret("init", "none", <<>>)
    /\ info = <<>>
    /\ sensor_last = 0

\* Time passes: between the passes, or while a pass waits for an answer
Tick ==
    /\ ticks < MaxTicks
    /\ pc \in {"idle", "static", "trips", "vehicles"}
    /\ \E d \in Steps :
        /\ pc # "idle" => d = FetchTimeout
        /\ clock' = clock + d
    /\ ticks' = ticks + 1
    /\ ret' = Ret("tick", "none", <<>>)
    /\ UNCHANGED <<throttle_lock, throttle_last, CachedGTFSData, info_df, pc,
                   local, hist, info, sensor_last>>

\* Throttled with the interval forgotten: only the lock drops a call
ThrottledNoInterval(lock, last, now) == lock

\* Throttled without the lock: only the interval drops a call
ThrottledNoLock(lock, last, now) ==
    last # 0 /\ ~(now - last > MIN_TIME_BETWEEN_UPDATES)

\* @Throttle(MIN_TIME_BETWEEN_UPDATES): the call is dropped while another
\* call holds the lock, and unless the method never completed or more than
\* the interval has passed since it last did
Throttled(lock, last, now) ==
    lock \/ (last # 0 /\ ~(now - last > MIN_TIME_BETWEEN_UPDATES))

\* A sensor calls update() and the throttle returns at once
UpdateThrottled(s) ==
    /\ Throttled(throttle_lock, throttle_last, clock)
    /\ ret' = Ret("update", "throttled", <<>>)
    /\ UNCHANGED <<clock, ticks, throttle_lock, throttle_last, CachedGTFSData,
                   info_df, pc, local, hist, info, sensor_last>>

\* A sensor calls update() and the throttle lets the pass start
UpdateBegin(s) ==
    /\ ~Throttled(throttle_lock, throttle_last, clock)
    /\ hist.passes < MaxPasses
    /\ throttle_lock' = TRUE
    /\ pc' = "static"
    /\ local' = NoLocal
    /\ hist' = [hist EXCEPT !.passes = @ + 1]
    /\ ret' = Ret("update", "started", <<>>)
    /\ UNCHANGED <<clock, ticks, throttle_last, CachedGTFSData, info_df, info,
                   sensor_last>>

\* Raise with the failed call recorded as a completed one
RaiseRecordsCall(static_failed) ==
    /\ throttle_lock' = FALSE
    /\ throttle_last' = clock
    /\ pc' = "idle"
    /\ local' = NoLocal
    /\ ret' = [Ret("pass", "raised", <<>>) EXCEPT
                 !.static_failed = static_failed]
    /\ UNCHANGED <<clock, ticks, info_df, info, sensor_last>>

\* An exception leaves update(): the throttle releases its lock and records
\* no completed call; nothing on the way to the poll loop catches it
Raise(static_failed) ==
    /\ throttle_lock' = FALSE
    /\ pc' = "idle"
    /\ local' = NoLocal
    /\ ret' = [Ret("pass", "raised", <<>>) EXCEPT
                 !.static_failed = static_failed]
    /\ UNCHANGED <<clock, ticks, throttle_last, info_df, info, sensor_last>>

\* CachedData with a new GTFSCache() made for every pass
CachedDataFresh(cache) == GTFSCache

\* The cache the pass hands to StaticMasterGTFSInfo: self.CachedGTFSData
CachedData(cache) == cache

\* timetable_df = StaticMasterGTFSInfo(url, CachedData).departure_info
LoadStatic ==
    /\ pc = "static"
    /\ \E resp \in StaticResponses :
        LET r == StaticMasterGTFSInfo(resp, CachedData(CachedGTFSData),
                                      Today(clock))
            n == IF r.fetched THEN 1 ELSE 0
            built == ~r.raised /\ r.fetched
        IN  /\ hist' = [hist EXCEPT
                          !.fetches = @ + n,
                          !.built = IF built THEN @ \cup {Today(clock)} ELSE @,
                          !.rebuilt = @ \/ (built /\ Today(clock) \in hist.built)]
            /\ CachedGTFSData' = r.cache
            /\ IF r.raised
               THEN Raise(r.fetched /\ Unusable(resp))
               ELSE /\ pc' = "trips"
                    /\ local' = [local EXCEPT
                                   !.timetable_df = r.cache.departure_info,
                                   !.bad_status = r.fetched /\ resp.status # 200]
                    /\ ret' = [Ret("pass", "static", <<>>) EXCEPT
                                 !.static_failed = r.fetched /\ Unusable(resp)]
                    /\ UNCHANGED <<clock, ticks, throttle_lock, throttle_last,
                                   info_df, info, sensor_last>>

\* get_live_data(), first half: the trip updates
FetchTrips ==
    /\ pc = "trips"
    /\ hist' = [hist EXCEPT !.fetches = @ + 1]
    /\ UNCHANGED CachedGTFSData
    /\ \E resp \in TripResponses :
        LET got == get_gtfs_feed_entities(
                       resp, TripFeed(resp.body, Midnight(clock)))
            feed_entities == SelectSeq(got.entity,
                                       LAMBDA e : e.has_trip_update)
            r == gtfs_data_to_df_trip(feed_entities)
        IN  IF got.raised \/ r.raised
            THEN Raise(FALSE)
            ELSE /\ pc' = "vehicles"
                 /\ local' = [local EXCEPT
                                !.live_df = r.df,
                                !.bad_status = @ \/ ~got.status_ok]
                 /\ ret' = Ret("pass", "trips", <<>>)
                 /\ UNCHANGED <<clock, ticks, throttle_lock, throttle_last,
                                info_df, info, sensor_last>>

\* get_live_data(), second half: the vehicle positions, merged into the trip
\* updates; the merge raises when the vehicle frame has no column
FetchVehicles ==
    /\ pc = "vehicles"
    /\ hist' = [hist EXCEPT !.fetches = @ + 1]
    /\ UNCHANGED CachedGTFSData
    /\ \E resp \in VehicleResponses :
        LET got == get_gtfs_feed_entities(resp, VehicleFeed(resp.body))
            vehicle_info_df == gtfs_data_to_df_vehicle(got.entity)
        IN  IF got.raised \/ vehicle_info_df = <<>>
            THEN Raise(FALSE)
            ELSE /\ pc' = "merge"
                 /\ local' = [local EXCEPT
                                !.live_df = merge_vehicles(@, vehicle_info_df),
                                !.bad_status = @ \/ ~got.status_ok]
                 /\ ret' = Ret("pass", "vehicles", <<>>)
                 /\ UNCHANGED <<clock, ticks, throttle_lock, throttle_last,
                                info_df, info, sensor_last>>

\* Reconcile with the frame assigned to self.info_df as soon as it is
\* merged, the empty values to be filled in place afterwards
ReconcilePublishesEarly ==
    /\ pc = "merge"
    /\ pc' = "fill"
    /\ local' = [local EXCEPT
                   !.df = reconcile(local.live_df, local.timetable_df, clock),
                   !.timetable_df = <<>>,
                   !.live_df = <<>>]
    /\ info_df' = Frame(local'.df)
    /\ ret' = Ret("pass", "merge", <<>>)
    /\ UNCHANGED <<clock, ticks, throttle_lock, throttle_last, CachedGTFSData,
                   hist, info, sensor_last>>

\* Lines 226-335: the merge, the times, the rows of the past removed
Reconcile ==
    /\ pc = "merge"
    /\ pc' = "fill"
    /\ local' = [local EXCEPT
                   !.df = reconcile(local.live_df, local.timetable_df, clock),
                   !.timetable_df = <<>>,
                   !.live_df = <<>>]
    /\ ret' = Ret("pass", "merge", <<>>)
    /\ UNCHANGED <<clock, ticks, throttle_lock, throttle_last, CachedGTFSData,
                   info_df, hist, info, sensor_last>>

\* Lines 340-349: the empty values of the local frame filled in
FillEmpty ==
    /\ pc = "fill"
    /\ pc' = "publish"
    /\ local' = [local EXCEPT
                   !.df = [i \in 1..Len(@) |-> fill_empty(@[i])]]
    /\ ret' = Ret("pass", "fill", <<>>)
    /\ UNCHANGED <<clock, ticks, throttle_lock, throttle_last, CachedGTFSData,
                   info_df, hist, info, sensor_last>>

\* Line 352, self.info_df = trip_update_df, and the return through the
\* throttle, which records the call and releases the lock
Publish ==
    /\ pc = "publish"
    /\ info_df' = Frame(local.df)
    /\ throttle_last' = clock
    /\ throttle_lock' = FALSE
    /\ pc' = "idle"
    /\ local' = NoLocal
    /\ ret' = Ret("pass", "published", <<>>)
    /\ UNCHANGED <<clock, ticks, CachedGTFSData, hist, info, sensor_last>>

\* filter_df that filters, sorts and truncates self.info_df itself
QueryInPlace(filters, order_by, order_ascending, limit) ==
    /\ LET r == filter_df(info_df, filters, order_by, order_ascending, limit)
       IN  /\ ret' = [Ret("query", IF r.raised THEN "raised" ELSE "ok", r.rows)
                        EXCEPT !.q = QueryArgs(filters, order_by,
                                               order_ascending, limit)]
           /\ info_df' = IF r.raised THEN info_df ELSE Frame(r.rows)
    /\ UNCHANGED <<clock, ticks, throttle_lock, throttle_last, CachedGTFSData,
                   pc, local, hist, info, sensor_last>>

\* A call of filter_df: the board is read, the result handed back
QueryWith(filters, order_by, order_ascending, limit) ==
    /\ LET r == filter_df(info_df, filters, order_by, order_ascending, limit)
       IN  ret' = [Ret("query", IF r.raised THEN "raised" ELSE "ok", r.rows)
                     EXCEPT !.q = QueryArgs(filters, order_by,
                                            order_ascending, limit)]
    /\ UNCHANGED <<clock, ticks, throttle_lock, throttle_last, CachedGTFSData,
                   info_df, pc, local, hist, info, sensor_last>>

\* A sensor asks for its next services
Query(s) ==
    QueryWith(SensorQuery(s).filters, "updated_arrival_time",
              SensorQuery(s).ascending, SensorQuery(s).limit)

Next ==
    \/ Tick
    \/ \E s \in Sensors : UpdateThrottled(s)
    \/ \E s \in Sensors : UpdateBegin(s)
    \/ LoadStatic
    \/ FetchTrips
    \/ FetchVehicles
    \/ Reconcile
    \/ FillEmpty
    \/ Publish
    \/ \E s \in Sensors : Query(s)

Spec == Init /\ [][Next]_vars

---------------------------------------------------------------------------
(* The data source of sensor.py: PublicTransportData._update_route_statuses *)
(* and the sensors that read PublicTransportData.info.                      *)

\* int(x / 60): the quotient cut towards zero
int_div(x, d) == IF x >= 0 THEN x \div d ELSE 0 - ((0 - x) \div d)

\* due_in_mins(time): the whole minutes from now until time
due_in_mins(time, now) == int_div(time - now, 60)

\* self.static_departure_info[route][direction][stop]["arrival_time"], the
\* timetable the platform was set up with; 0 stands for the KeyError
static_departure_info(route_id, direction_id, stop_id) ==
    LET rows == SelectSeq(BuildDepartureInfo(get_dataframes(
                    [kind |-> "response", status |-> 200, body |-> "A1"]
                    ).dataframes),
                    LAMBDA t : t.route_id = route_id
                               /\ t.direction_id = direction_id
                               /\ t.stop_id = stop_id)
    IN  IF rows = <<>> THEN 0 ELSE rows[1].scheduled_arrival_time

\* _get_vehicle_positions(): positions[trip_id] of the vehicles on a trip
position_of(vehicle_entities, trip_id) ==
    LET m == SelectSeq(vehicle_entities,
                       LAMBDA v : v.trip_id # "" /\ v.trip_id = trip_id)
    IN  IF m = <<>> THEN NA ELSE m[Len(m)].latitude

\* Lines 442-454: the arrival time when the feed gives one, else the
\* scheduled time of the declared date; the delay is added to either
stop_time(trip, stop, scheduled_arrival_time) ==
    (IF stop.arrival_time = 0
     THEN scheduled_arrival_time + trip.start_date
     ELSE stop.arrival_time)
    + stop.arrival_delay

\* StopDetails(arrival_time, position) under its key of departure_times.
\* trip_id, live_arrival_time and arrival_delay are not fields of
\* StopDetails: they record which stop_time_update the entry came from.
StopDetails(trip, stop, vehicle_entities) ==
    [route_id |-> trip.route_id, direction_id |-> trip.direction_id,
     stop_id |-> stop.stop_id,
     arrival_time |->
         stop_time(trip, stop,
                   static_departure_info(trip.route_id, trip.direction_id,
                                         stop.stop_id)),
     position |-> position_of(vehicle_entities, trip.trip_id),
     trip_id |-> trip.trip_id,
     live_arrival_time |-> stop.arrival_time,
     arrival_delay |-> stop.arrival_delay]

\* "Ignore arrival times in the past": due_in_mins(stop_time) >= 0
sensor_keeps(details, now) == due_in_mins(details.arrival_time, now) >= 0

\* _update_route_statuses(vehicle_positions): strptime raises on an empty
\* start_date of a stop without an arrival time; each list of
\* departure_times is sorted by arrival_time
update_route_statuses(feed_entities, vehicle_entities, now) ==
    LET all == Flatten([i \in 1..Len(feed_entities) |->
                   [j \in 1..Len(feed_entities[i].stop_time_update) |->
                       StopDetails(feed_entities[i],
                                   feed_entities[i].stop_time_update[j],
                                   vehicle_entities)]])
        no_date == \E i \in 1..Len(feed_entities) :
                       /\ feed_entities[i].start_date = 0
                       /\ \E j \in 1..Len(feed_entities[i].stop_time_update) :
                              feed_entities[i].stop_time_update[j].arrival_time = 0
    IN  IF no_date
        THEN [raised |-> TRUE, info |-> <<>>]
        ELSE [raised |-> FALSE,
              info |-> sort_values(
                           SelectSeq(all, LAMBDA d : sensor_keeps(d, now)),
                           "arrival_time", TRUE)]

\* The stop, route and direction each sensor was configured with
SensorConfig(s) ==
    CASE s = 1 -> [route |-> "R1", direction |-> 0, stop |-> "B"]
      [] s = 2 -> [route |-> "R2-X", direction |-> 1, stop |-> "A"]
      [] OTHER -> [route |-> "R1", direction |-> 0, stop |-> "A"]

\* _get_next_services(): info.get(route, {}).get(direction, {}).get(stop, [])
get_next_services(board, s) ==
    SelectSeq(board, LAMBDA d : /\ d.route_id = SensorConfig(s).route
                                /\ d.direction_id = SensorConfig(s).direction
                                /\ d.stop_id = SensorConfig(s).stop)

\* PublicTransportData.update of sensor.py, dropped by the throttle
SensorUpdateThrottled(s) ==
    /\ Throttled(FALSE, sensor_last, clock)
    /\ ret' = Ret("update", "throttled", <<>>)
    /\ UNCHANGED <<clock, ticks, throttle_lock, throttle_last, CachedGTFSData,
                   info_df, pc, local, hist, info, sensor_last>>

\* PublicTransportData.update of sensor.py: the positions, then the trip
\* updates, then self.info = departure_times; an exception of either fetch
\* leaves update() and nothing is published
SensorUpdate(s) ==
    /\ ~Throttled(FALSE, sensor_last, clock)
    /\ \E vresp \in VehicleResponses, tresp \in TripResponses :
        LET vgot == get_gtfs_feed_entities(vresp, VehicleFeed(vresp.body))
            tgot == get_gtfs_feed_entities(
                        tresp, TripFeed(tresp.body, Midnight(clock)))
            feed_entities == SelectSeq(tgot.entity,
                                       LAMBDA e : e.has_trip_update)
            r == update_route_statuses(feed_entities, vgot.entity, clock)
        IN  IF vgot.raised \/ tgot.raised \/ r.raised
            THEN /\ ret' = Ret("pass", "raised", <<>>)
                 /\ UNCHANGED <<info, sensor_last>>
            ELSE /\ info' = r.info
                 /\ sensor_last' = clock
                 /\ ret' = Ret("pass", "published", <<>>)
    /\ UNCHANGED <<clock, ticks, throttle_lock, throttle_last, CachedGTFSData,
                   info_df, pc, local, hist>>

\* PublicTransportSensor.state and extra_state_attributes read the next
\* services of the sensor
SensorRead(s) ==
    /\ ret' = Ret("query", "ok", get_next_services(info, s))
    /\ UNCHANGED <<clock, ticks, throttle_lock, throttle_last, CachedGTFSData,
                   info_df, pc, local, hist, info, sensor_last>>

SensorNext ==
    \/ Tick
    \/ \E s \in Sensors : SensorUpdateThrottled(s)
    \/ \E s \in Sensors : SensorUpdate(s)
    \/ \E s \in Sensors : SensorRead(s)

SensorSpec == Init /\ [][SensorNext]_vars

---------------------------------------------------------------------------
(* The queries on their own: filter_df called with every combination of     *)
(* arguments on every board a first pass can publish.                       *)

\* The trip-update answers of Spec, and F3 and F4
QueryTripResponses ==
    TripResponses
    \cup [kind : {"response"}, status : {200}, body : {"F3", "F4"}]

\* update() run from construction at StartClock with the three answers
FirstPass(sresp, tresp, vresp) ==
    LET st == StaticMasterGTFSInfo(sresp, CachedData(GTFSCache),
                                   Today(StartClock))
        tgot == get_gtfs_feed_entities(
                    tresp, TripFeed(tresp.body, Midnight(StartClock)))
        trips == gtfs_data_to_df_trip(
                     SelectSeq(tgot.entity, LAMBDA e : e.has_trip_update))
        vgot == get_gtfs_feed_entities(vresp, VehicleFeed(vresp.body))
        vehicle_info_df == gtfs_data_to_df_vehicle(vgot.entity)
        raised == st.raised \/ tgot.raised \/ trips.raised \/ vgot.raised
                  \/ vehicle_info_df = <<>>
        df == IF raised THEN <<>>
              ELSE reconcile(merge_vehicles(trips.df, vehicle_info_df),
                             st.cache.departure_info, StartClock)
    IN  [raised |-> raised, cache |-> st.cache,
         board |-> Frame([i \in 1..Len(df) |-> fill_empty(df[i])])]

\* The data source as constructed, or as its first pass left it
QueryInit ==
    \/ Init
    \/ \E sresp \in StaticResponses, tresp \in QueryTripResponses,
          vresp \in VehicleResponses :
        LET first == FirstPass(sresp, tresp, vresp) IN
        /\ ~first.raised
        /\ clock = StartClock
        /\ ticks = 0
        /\ throttle_lock = FALSE
        /\ throttle_last = StartClock
        /\ CachedGTFSData = first.cache
        /\ info_df = first.board
        /\ pc = "idle"
        /\ local = NoLocal
        /\ hist = [passes |-> 1, fetches |-> 3, built |-> {Today(StartClock)},
                   rebuilt |-> FALSE]
        /\ ret = Ret("pass", "published", <<>>)
        /\ info = <<>>
        /\ sensor_last = 0

\* The arguments the queries are called with
QueryValues == [stop_id : {None, S(""), S("A"), S("B")},
                route_id : {None, S(""), S("R1"), S("R2")},
                direction_id : {None, N(0), S("0")}]
QueryOrders == {"updated_arrival_time", "updated_departure_time"}
QueryLimits == {1, 2, DefaultLimit}

QueryNext ==
    \E filters \in QueryValues, order_by \in QueryOrders,
       order_ascending \in BOOLEAN, limit \in QueryLimits :
        QueryWith(filters, order_by, order_ascending, limit)

QuerySpec == QueryInit /\ [][QueryNext]_vars

---------------------------------------------------------------------------
(* The claims.                                                              *)

\* a row that carries no live arrival epoch
NoLiveArrival(row) == row.live_arrival_time = 0 \/ row.live_arrival_time = NaN

\* the (trip_id, stop_id) pairs of a frame
Pairs(rows) == {<<rows[i].trip_id, rows[i].stop_id>> : i \in 1..Len(rows)}

\* C1: every record a query returns has an updated arrival time that is not
\* before the time of the query.
C1_QueryReturnsNoPastRecord ==
    (ret.op = "query" /\ ret.outcome = "ok") =>
        \A i \in 1..Len(ret.rows) : ret.rows[i].updated_arrival_time >= clock

\* C2: a call to update made less than the minimum interval after the last
\* completed pass is dropped: it fetches nothing, starts no pass and leaves
\* the board, the cache and the throttle as they were, whichever sensor calls.
C2_CallWithinIntervalIsDropped ==
    [][(/\ ret'.op = "update"
        /\ throttle_last # 0
        /\ clock' - throttle_last < MIN_TIME_BETWEEN_UPDATES)
       => (/\ ret'.outcome = "throttled"
           /\ UNCHANGED <<info_df, hist, pc, local, CachedGTFSData,
                          throttle_last, throttle_lock>>)]_vars

\* C2, witness: a call was dropped less than a minute after a pass published a
\* board that has rows.
C2_Witness ==
    /\ ret.op = "update" /\ ret.outcome = "throttled"
    /\ ~throttle_lock
    /\ throttle_last # 0
    /\ clock > throttle_last
    /\ clock - throttle_last < MIN_TIME_BETWEEN_UPDATES
    /\ info_df.rows # <<>>

\* C3: a pass in which a fetch answered with a status other than 200 leaves
\* the published board as it was.
C3_FailedFetchKeepsBoard ==
    [][(pc = "publish" /\ local.bad_status) => info_df' = info_df]_vars

\* C4: no exception leaves update().
C4_NoExceptionEscapes == ~(ret.op = "pass" /\ ret.outcome = "raised")

\* every value update() fills in at the end is filled in, and every row has
\* its time
Complete(rows) ==
    \A i \in 1..Len(rows) :
        /\ rows[i].real_time_update \in {"True", "False"}
        /\ rows[i].vehicle_latitude # NA
        /\ rows[i].vehicle_longitude # NA
        /\ rows[i].updated_arrival_time # NaN

\* C5: the board a reader sees is always a complete one; the board reference
\* changes only in the last step of a pass, to the whole frame that pass
\* built, and no other step changes the board.
C5_BoardPublishedWhole ==
    /\ [](Complete(info_df.rows))
    /\ [][info_df' # info_df =>
            (/\ pc = "publish" /\ pc' = "idle"
             /\ Complete(local.df)
             /\ info_df' = Frame(local.df))]_vars

\* C5, witness: a sensor has read the published board while a pass holds a
\* different frame that it has not yet published.
C5_Witness ==
    /\ pc \in {"fill", "publish"}
    /\ ret.op = "query" /\ ret.outcome = "ok" /\ ret.rows # <<>>
    /\ info_df.rows # <<>>
    /\ local.df # <<>>
    /\ local.df # info_df.rows

WholeSnapshot(cache) ==
    \/ cache = NoSnapshot
    \/ /\ cache.archive \in ArchiveBodies
       /\ cache.date = Midnight(cache.date)
       /\ cache.departure_info =
              [i \in 1..Len(StopTimesOf(cache.archive)) |->
                  LET st == StopTimesOf(cache.archive)[i]
                      tr == CHOOSE t \in Range(TripsOf(cache.archive)) :
                                t.trip_id = st.trip_id
                  IN  DepartureInfoRow(st, tr)]

C8_BoardHasThePairsOfBothSources ==
    [][(pc = "merge" /\ pc' = "fill") =>
        Pairs(local'.df) = Pairs(local.live_df) \cup Pairs(local.timetable_df)]_vars

\* C9: an entry made from a stop_time_update with a live arrival epoch has
\* that epoch as its arrival time.
C9_LiveArrivalUsedAsIs ==
    \A i \in 1..Len(info) :
        info[i].live_arrival_time # 0 =>
            info[i].arrival_time = info[i].live_arrival_time

\* C10 for one row
ScheduledArrival(row) ==
    /\ NoLiveArrival(row) =>
           row.updated_arrival_time =
               row.scheduled_arrival_time + row.start_date + row.arrival_delay
    /\ row.source = "right_only" =>
           /\ row.arrival_delay = 0
           /\ row.start_date = Midnight(row.start_date)
           /\ row.updated_arrival_time =
                  Midnight(row.start_date) + row.scheduled_arrival_time

\* C10: a row without a live arrival epoch has the scheduled offset plus the
\* midnight of its service date plus its delay as updated arrival time, a
\* missing delay counting as 0; a row of the timetable alone has its midnight
\* plus the scheduled offset.
C10_ScheduledArrivalPlusDelay ==
    /\ \A i \in 1..Len(info_df.rows) : ScheduledArrival(info_df.rows[i])
    /\ pc \in {"fill", "publish"} =>
           \A i \in 1..Len(local.df) : ScheduledArrival(local.df[i])

\* C10, witness: offset 29700, midnight 1700000000 and delay 120 without a
\* live arrival epoch are on the board as 1700029820, beside a row of the
\* timetable alone.
C10_Witness ==
    /\ \E i \in 1..Len(info_df.rows) :
        /\ info_df.rows[i].live_arrival_time = 0
        /\ info_df.rows[i].scheduled_arrival_time = 29700
        /\ info_df.rows[i].start_date = 1700000000
        /\ info_df.rows[i].arrival_delay = 120
        /\ info_df.rows[i].updated_arrival_time = 1700029820
    /\ \E i \in 1..Len(info_df.rows) : info_df.rows[i].source = "right_only"

\* the rows of a pass after lines 226-310: merged, the times worked out,
\* nothing yet moved to tomorrow or removed
Resolved(live_df, timetable_df, now_secs) ==
    LET merged == merge_outer(live_df, timetable_df)
    IN  [i \in 1..Len(merged) |-> with_times(merged[i], Midnight(now_secs))]

\* C11: a row whose resolved arrival is before the now of the pass, and that
\* has a scheduled offset, leaves the pass with tomorrow's midnight as its
\* start_date and tomorrow's midnight plus the offset as its updated arrival
\* time; a row whose resolved arrival is not before now leaves it unchanged.
C11_PastArrivalGoesToTomorrow ==
    [][(pc = "merge" /\ pc' = "fill") =>
        LET rows == Resolved(local.live_df, local.timetable_df, clock)
            midnight_tomorrow == Midnight(clock) + SecondsPerDay
        IN  \A i \in 1..Len(rows) :
              /\ (rows[i].updated_arrival_time < clock
                   /\ rows[i].scheduled_arrival_time # NaN)
                  => [rows[i] EXCEPT
                        !.start_date = midnight_tomorrow,
                        !.updated_arrival_time =
                            midnight_tomorrow + rows[i].scheduled_arrival_time]
                     \in Range(local'.df)
              /\ rows[i].updated_arrival_time >= clock
                  => rows[i] \in Range(local'.df)]_vars

\* C12 for one row: without a live departure epoch, and with a scheduled
\* departure offset, the updated departure time is the offset plus the
\* start_date plus the departure delay, a missing delay counting as 0
ScheduledDeparture(row) ==
    ((row.live_departure_time = 0 \/ row.live_departure_time = NaN)
     /\ row.scheduled_departure_time # NaN)
    => row.updated_departure_time =
           row.scheduled_departure_time + row.start_date
           + fillna(row.departure_delay, 0)

\* C12: every row of the board, and of the frame about to be published, that
\* has no live departure epoch has scheduled departure offset + start_date +
\* departure_delay as its updated departure time.
C12_ScheduledDeparturePlusDepartureDelay ==
    /\ \A i \in 1..Len(info_df.rows) : ScheduledDeparture(info_df.rows[i])
    /\ pc \in {"fill", "publish"} =>
           \A i \in 1..Len(local.df) : ScheduledDeparture(local.df[i])

\* a criterion that constrains: neither None nor the empty string
Constrains(value) ==
    value.kind = "int" \/ (value.kind = "str" /\ value.s # "")

\* the record's field equals the criterion: the same string, or the number
\* the field holds
FieldEquals(field, value) ==
    IF value.kind = "int" THEN field = Str(value.n) ELSE field = value.s

\* C13's matching rule
Satisfies(row, filters) ==
    \A key \in FilterKeys :
        Constrains(filters[key]) => FieldEquals(row[key], filters[key])

\* the criteria are strings or None
StringCriteria(filters) == \A key \in FilterKeys : filters[key].kind # "int"

\* C13: a query on a published board, its criteria strings or None, does not
\* fail, and returns the sorted, truncated sequence of exactly the records
\* that equal every criterion that is neither None nor empty; with no such
\* criterion, of the whole board.
C13_QueryReturnsTheMatches ==
    (ret.op = "query" /\ info_df.columns /\ StringCriteria(ret.q.filters)) =>
        /\ ret.outcome = "ok"
        /\ ret.rows =
               head(sort_values(
                        SelectSeq(info_df.rows,
                                  LAMBDA row : Satisfies(row, ret.q.filters)),
                        ret.q.order_by, ret.q.order_ascending),
                    ret.q.limit)

\* the boards a first pass can publish
PublishableBoards ==
    {FirstPass(sresp, tresp, vresp).board :
        <<sresp, tresp, vresp>> \in
            {x \in StaticResponses \X QueryTripResponses \X VehicleResponses :
                ~FirstPass(x[1], x[2], x[3]).raised}}

\* how many rows of a frame are the given record
Count(rows, row) == Cardinality({i \in 1..Len(rows) : rows[i] = row})

\* two frames hold the same records, in whatever row order
SameRecords(rows1, rows2) ==
    /\ Len(rows1) = Len(rows2)
    /\ \A i \in 1..Len(rows1) : Count(rows1, rows1[i]) = Count(rows2, rows1[i])

\* the place of a trip_id in the order of the trip ids
TripOrder(trip_id) == CHOOSE k \in 1..Len(TripIds) : TripIds[k] = trip_id

\* C14: the result of a query is ordered by the order_by column in the
\* direction asked for, records of equal order_by value are in the order of
\* their trip_id, and every board that holds the same records, in whatever
\* row order, gives the same result.
C14_ResultOrderIsDetermined ==
    (ret.op = "query" /\ ret.outcome = "ok") =>
        /\ \A i \in 1..(Len(ret.rows) - 1) :
             LET a == ret.rows[i][ret.q.order_by]
                 b == ret.rows[i + 1][ret.q.order_by]
             IN  /\ IF ret.q.order_ascending THEN a <= b ELSE a >= b
                 /\ a = b => TripOrder(ret.rows[i].trip_id)
                                 <= TripOrder(ret.rows[i + 1].trip_id)
        /\ \A board \in PublishableBoards :
             SameRecords(board.rows, info_df.rows) =>
                 filter_df(board, ret.q.filters, ret.q.order_by,
                           ret.q.order_ascending, ret.q.limit).rows = ret.rows

\* the rows of the board that the query string of the call selects
Matching(rows, filters) == SelectSeq(rows, LAMBDA row : matches(row, filters))

\* C15: a query that does not fail returns min(limit, number of matches)
\* records, and they are the first of the sorted matches: never more than
\* limit, every match when there are fewer, none when nothing matches.
C15_ResultIsTheFirstLimitMatches ==
    (ret.op = "query" /\ ret.outcome = "ok") =>
        LET m == Matching(info_df.rows, ret.q.filters)
            sorted == sort_values(m, ret.q.order_by, ret.q.order_ascending)
            n == IF Len(m) < ret.q.limit THEN Len(m) ELSE ret.q.limit
        IN  /\ Len(ret.rows) = n
            /\ Len(ret.rows) <= ret.q.limit
            /\ \A i \in 1..n : ret.rows[i] = sorted[i]

\* C15, witness: two trips of one route are due at the stop 5 and 12 minutes
\* from now; the ascending query with limit 1 has returned the first alone.
C15_Witness ==
    /\ ret.op = "query" /\ ret.outcome = "ok"
    /\ ret.q.order_by = "updated_arrival_time"
    /\ ret.q.order_ascending /\ ret.q.limit = 1
    /\ LET m == Matching(info_df.rows, ret.q.filters)
       IN  /\ Len(m) = 2
           /\ {m[i].updated_arrival_time : i \in 1..2}
                  = {clock + 5 * 60, clock + 12 * 60}
           /\ m[1].trip_id # m[2].trip_id
    /\ Len(ret.rows) = 1
    /\ ret.rows[1].updated_arrival_time = clock + 5 * 60

\* C16: a query leaves the board as it was, and the result in hand is the one
\* the same arguments give on the board as it is now, so that a repeated
\* query returns the same.
C16_QueryIsReadOnlyAndRepeatable ==
    /\ [][ret'.op = "query" => info_df' = info_df]_vars
    /\ [](ret.op = "query" =>
            LET again == filter_df(info_df, ret.q.filters, ret.q.order_by,
                                   ret.q.order_ascending, ret.q.limit)
            IN  /\ ret.rows = again.rows
                /\ (ret.outcome = "raised") = again.raised)

\* C16, witness: a query has returned some of the records of the board, not
\* all, and the board holds them all.
C16_Witness ==
    /\ ret.op = "query" /\ ret.outcome = "ok"
    /\ ret.rows # <<>>
    /\ Len(ret.rows) < Len(info_df.rows)
    /\ info_df \in PublishableBoards

\* the real-time flag of a row, as the end of the pass fills it in
RealTimeFlag(row) == fill_empty(row).real_time_update = "True"

\* the row carries the scheduled time of a stop of the timetable for which
\* the live feed has no stop_time_update
FromStaticOnlyStop(row, live_df, timetable_df) ==
    \E k \in 1..Len(timetable_df) :
        /\ timetable_df[k].trip_id = row.trip_id
        /\ timetable_df[k].scheduled_arrival_time = row.scheduled_arrival_time
        /\ <<timetable_df[k].trip_id, timetable_df[k].stop_id>>
               \notin Pairs(live_df)

\* C17: in the frame a pass builds, a record flagged real-time has a
\* (trip_id, stop_id) for which the live feed carried a stop_time_update, and
\* a record made from a stop that only the timetable has is not flagged,
\* whatever the live feed says about the other stops of the trip.
C17_RealTimeFlagIsPerStop ==
    [][(pc = "merge" /\ pc' = "fill") =>
        \A i \in 1..Len(local'.df) :
            LET row == local'.df[i] IN
            /\ RealTimeFlag(row)
                   => <<row.trip_id, row.stop_id>> \in Pairs(local.live_df)
            /\ FromStaticOnlyStop(row, local.live_df, local.timetable_df)
                   => ~RealTimeFlag(row)]_vars


---------------------------------------------------------------------------
(* The route-id delimiter. A route_id is a sequence of characters here, so  *)
(* that str.split is computed and not assumed.                              *)

MaxRouteLen == 3

RouteChars == {"R", "2", "-"}

\* The raw route_ids a feed may carry, the empty default of protobuf included
RawRouteIds == UNION {[1..n -> RouteChars] : n \in 0..MaxRouteLen}

\* The route_ids of the other row of a merged frame of two rows
OtherRouteIds == {<<"R">>, <<"R", "-", "2">>}

\* config.get(CONF_ROUTE_DELIMITER): None when the key is absent
RouteDelimiters == {NA, "-"}

\* str.split(sep): the pieces between the occurrences of sep
RECURSIVE split(_, _)
split(str, sep) ==
    IF \A i \in 1..Len(str) : str[i] # sep
    THEN <<str>>
    ELSE LET k == CHOOSE i \in 1..Len(str) :
                      str[i] = sep /\ \A j \in 1..(i - 1) : str[j] # sep
         IN  <<SubSeq(str, 1, k - 1)>>
                 \o split(SubSeq(str, k + 1, Len(str)), sep)

\* sensor.py 386-403: route_id of a trip update. The first piece is compared
\* with the delimiter itself; the debug line that follows reads
\* ThisTrip.trip.route_id, and a TripDescriptor has no field trip
route_id_of_trip(this_route_id, delimiter) ==
    IF delimiter # NA
    THEN LET route_id_split == split(this_route_id, delimiter)
         IN  [raised |-> TRUE,
              route_id |-> IF route_id_split[1] = <<delimiter>>
                           THEN this_route_id
                           ELSE route_id_split[1]]
    ELSE [raised |-> FALSE, route_id |-> this_route_id]

\* The number of columns of Series.str.split(sep, expand=True)
split_columns(column, sep) ==
    LET n == {Len(split(column[i], sep)) : i \in 1..Len(column)}
    IN  CHOOSE m \in n : \A k \in n : k <= m

\* PublicTransportData.py 257-261: the split is assigned under the key
\* ("route_id", "route_id_split"), one new column, which raises ValueError
\* when the split has more than one column; the column route_id is not
\* assigned to
split_route_ids(column, delimiter) ==
    IF delimiter # NA /\ column # <<>> /\ split_columns(column, delimiter) > 1
    THEN [raised |-> TRUE, route_id |-> column]
    ELSE [raised |-> FALSE, route_id |-> column]

\* What a route operation was applied to
RouteArgs(source, column, delimiter) ==
    [source |-> source, route_id |-> column, route_delimiter |-> delimiter]

\* One trip update goes through the loop of _update_route_statuses
SensorRouteId(this_route_id, delimiter) ==
    /\ LET r == route_id_of_trip(this_route_id, delimiter)
       IN  ret' = [Ret("route", IF r.raised THEN "raised" ELSE "ok",
                       <<r.route_id>>)
                     EXCEPT !.q = RouteArgs("sensor", <<this_route_id>>,
                                            delimiter)]
    /\ UNCHANGED <<clock, ticks, throttle_lock, throttle_last, CachedGTFSData,
                   info_df, pc, local, hist, info, sensor_last>>

\* The merged frame of a pass goes through lines 257-261
FrameRouteIds(column, delimiter) ==
    /\ LET r == split_route_ids(column, delimiter)
       IN  ret' = [Ret("route", IF r.raised THEN "raised" ELSE "ok",
                       r.route_id)
                     EXCEPT !.q = RouteArgs("frame", column, delimiter)]
    /\ UNCHANGED <<clock, ticks, throttle_lock, throttle_last, CachedGTFSData,
                   info_df, pc, local, hist, info, sensor_last>>

RouteNext ==
    \/ \E this_route_id \in RawRouteIds, delimiter \in RouteDelimiters :
           SensorRouteId(this_route_id, delimiter)
    \/ \E r1 \in RawRouteIds, r2 \in OtherRouteIds,
          delimiter \in RouteDelimiters :
           FrameRouteIds(<<r1, r2>>, delimiter)

RouteSpec == Init /\ [][RouteNext]_vars

\* the canonical route_id: the raw one without a delimiter or when it starts
\* with the delimiter, else what precedes the first delimiter
CanonicalRouteId(raw, delimiter) ==
    IF delimiter = NA \/ (raw # <<>> /\ raw[1] = delimiter)
    THEN raw
    ELSE split(raw, delimiter)[1]

\* C18: the route_id a live trip goes on with is the first piece of the raw
\* route_id split on the configured delimiter, the raw route_id itself when
\* it starts with the delimiter or when no delimiter is configured.
C18_RouteIdIsCanonical ==
    ret.op = "route" =>
        /\ ret.outcome = "ok"
        /\ \A i \in 1..Len(ret.rows) :
               ret.rows[i] = CanonicalRouteId(ret.q.route_id[i],
                                              ret.q.route_delimiter)


---------------------------------------------------------------------------
(* The script test.py: the configuration is validated, then the loop sets   *)
(* the platform up and polls.                                               *)

\* A key the YAML file does not have; config.get of it is None
Absent == "<absent>"

\* One entry of departures: complete, or without its required name
Departure(name) ==
    [name |-> name, stopid |-> "A", route |-> "R1", route_name |-> "R1",
     stop_code |-> "A"]

\* The configurations a YAML file may hold
InputConfigs ==
    [trip_update_url : {Absent, "trip_url"},
     vehicle_position_url : {Absent, "vehicle_url"},
     gtfs_url : {Absent, "gtfs_url"},
     route_delimiter : {Absent, "-"},
     departures : {Absent, <<>>, <<Departure("first")>>,
                   <<Departure("first"), Departure("second")>>,
                   <<Departure(Absent)>>}]

\* configuration = dict()
EmptyConfig ==
    [trip_update_url |-> Absent, vehicle_position_url |-> Absent,
     gtfs_url |-> Absent, route_delimiter |-> Absent, departures |-> Absent]

\* PLATFORM_SCHEMA(input_config): the required keys of the platform and of
\* every departure; voluptuous raises Invalid when one is missing
PLATFORM_SCHEMA(input_config) ==
    IF \/ input_config.trip_update_url = Absent
       \/ input_config.gtfs_url = Absent
       \/ /\ input_config.departures # Absent
          /\ \E i \in 1..Len(input_config.departures) :
                 input_config.departures[i].name = Absent
    THEN [raised |-> TRUE, configuration |-> EmptyConfig]
    ELSE [raised |-> FALSE, configuration |-> input_config]

\* validate_config(file): Invalid is caught and logged, and the dictionary
\* the function began with is returned
validate_config(input_config) ==
    LET validated == PLATFORM_SCHEMA(input_config)
    IN  [invalid |-> validated.raised,
         configuration |-> IF validated.raised THEN EmptyConfig
                           ELSE validated.configuration]

\* The locals of main() before the loop and what it has done so far
\* file: what args["file"] holds
\* sensors: "list" for list(), None for what setup_platform returned
MainLocal(file, invalid, configuration) ==
    [file |-> file, invalid |-> invalid, configuration |-> configuration,
     sensors |-> "list", iterations |-> 0, setups |-> 0, created |-> 0,
     fetches |-> 0]

MainOps == {"validate_config", "update_sensors", "sleep"}

\* main(), lines 88-96: the arguments, validate_config and the empty list of
\* sensors; the loop follows whatever the validation said
ValidateConfig(input_config) ==
    /\ pc = "idle"
    /\ ret.op = "init"
    /\ LET v == validate_config(input_config)
       IN  /\ local' = MainLocal(input_config, v.invalid, v.configuration)
           /\ ret' = Ret("validate_config",
                         IF v.invalid THEN "logged" ELSE "ok", <<>>)
    /\ pc' = "loop"
    /\ UNCHANGED <<clock, ticks, throttle_lock, throttle_last, CachedGTFSData,
                   info_df, hist, info, sensor_last>>

\* setup_platform(hass, config, add_devices): the static archive of gtfs_url,
\* the data source, then one sensor per departure; the constructor of a
\* sensor calls update(), and only the first call passes the throttle.
\* requests.get(None) raises before anything is sent; so does the loop over
\* departures that are None. The function returns None.
setup_platform(config, sresp, vresp, tresp, now) ==
    LET static == StaticMasterGTFSInfo(sresp, GTFSCache, Today(now))
        vgot == get_gtfs_feed_entities(vresp, VehicleFeed(vresp.body))
        tgot == get_gtfs_feed_entities(tresp,
                                       TripFeed(tresp.body, Midnight(now)))
        r == update_route_statuses(
                 SelectSeq(tgot.entity, LAMBDA e : e.has_trip_update),
                 vgot.entity, now)
        none == [raised |-> TRUE, created |-> 0, fetches |-> 0,
                 published |-> FALSE, info |-> <<>>]
    IN  IF config.gtfs_url = Absent THEN none
        ELSE IF static.raised \/ config.departures = Absent
        THEN [none EXCEPT !.fetches = 1]
        ELSE IF config.departures = <<>>
        THEN [none EXCEPT !.raised = FALSE, !.fetches = 1]
        ELSE IF config.vehicle_position_url = Absent
        THEN [none EXCEPT !.fetches = 1]
        ELSE IF vgot.raised THEN [none EXCEPT !.fetches = 2]
        ELSE IF tgot.raised \/ r.raised THEN [none EXCEPT !.fetches = 3]
        ELSE [raised |-> FALSE, created |-> Len(config.departures),
              fetches |-> 3, published |-> TRUE, info |-> r.info]

\* One iteration of the loop of main(), lines 99-116: update_sensors sets the
\* platform up when the list of sensors is empty; len(None) raises on the
\* iteration after a setup. Nothing but KeyboardInterrupt is caught.
UpdateSensors ==
    /\ pc = "loop"
    /\ \E sresp \in StaticResponses, vresp \in VehicleResponses,
          tresp \in TripResponses :
        LET s == setup_platform(local.configuration, sresp, vresp, tresp,
                                clock)
        IN  IF local.sensors # "list"
            THEN /\ local' = [local EXCEPT !.iterations = @ + 1]
                 /\ pc' = "exit"
                 /\ ret' = Ret("update_sensors", "raised", <<>>)
                 /\ UNCHANGED <<info, sensor_last>>
            ELSE /\ local' = [local EXCEPT
                                 !.iterations = @ + 1,
                                 !.setups = @ + 1,
                                 !.created = @ + s.created,
                                 !.fetches = @ + s.fetches,
                                 !.sensors = IF s.raised THEN @ ELSE "None"]
                 /\ pc' = IF s.raised THEN "exit" ELSE "sleep"
                 /\ ret' = Ret("update_sensors",
                               IF s.raised THEN "raised" ELSE "ok", <<>>)
                 /\ IF s.published
                    THEN info' = s.info /\ sensor_last' = clock
                    ELSE UNCHANGED <<info, sensor_last>>
    /\ UNCHANGED <<clock, ticks, throttle_lock, throttle_last, CachedGTFSData,
                   info_df, hist>>

\* time.sleep(60) at the end of an iteration
MainSleep ==
    /\ pc = "sleep"
    /\ clock' = clock + 60
    /\ pc' = "loop"
    /\ ret' = Ret("sleep", "none", <<>>)
    /\ UNCHANGED <<ticks, throttle_lock, throttle_last, CachedGTFSData,
                   info_df, local, hist, info, sensor_last>>

MainNext ==
    \/ \E input_config \in InputConfigs : ValidateConfig(input_config)
    \/ UpdateSensors
    \/ MainSleep

MainSpec == Init /\ [][MainNext]_vars

\* C19: after a validation that failed, nothing of the polling happens: no
\* iteration of the loop, no platform setup, no sensor and no fetch.
C19_InvalidConfigStopsBeforePolling ==
    (ret.op \in MainOps /\ local.invalid) =>
        /\ local.iterations = 0
        /\ local.setups = 0
        /\ local.created = 0
        /\ local.fetches = 0


\* the frame has no row whose updated arrival time is the sentinel or missing
ConcreteArrivals(rows) ==
    \A i \in 1..Len(rows) :
        rows[i].updated_arrival_time # 0 /\ rows[i].updated_arrival_time # NaN

\* C20: no record of the board, and none of the frame a pass goes on with
\* after the reconciliation, has 0 or a missing value as its updated arrival
\* time.
C20_ArrivalIsAConcreteInstant ==
    /\ ConcreteArrivals(info_df.rows)
    /\ pc \in {"fill", "publish"} => ConcreteArrivals(local.df)

\* a pass whose feed had trip T3 with a timed stop A and a stop B without
\* time or timetable has been published: the board has T3 at stop A only
C20_Witness ==
    /\ pc = "idle"
    /\ \E i \in 1..Len(info_df.rows) :
           info_df.rows[i].trip_id = "T3" /\ info_df.rows[i].stop_id = "A"
    /\ \A i \in 1..Len(info_df.rows) :
           ~(info_df.rows[i].trip_id = "T3" /\ info_df.rows[i].stop_id = "B")


\* the rows of a feed with the service date the trip declares, today's
\* midnight when it declares none
DeclaredRows(entities, midnight) ==
    Flatten([i \in 1..Len(entities) |->
        [j \in 1..Len(entities[i].stop_time_update) |->
            [TripRow(entities[i], entities[i].stop_time_update[j])
                EXCEPT !.start_date = IF entities[i].start_date = 0
                                      THEN midnight
                                      ELSE entities[i].start_date]]])

\* C21: the live frame a pass goes on with has, for every row, the start_date
\* its trip declares in the feed, as given and with no day added, or today's
\* midnight when the trip declares none.
C21_DeclaredStartDateAsGiven ==
    [][(pc = "trips" /\ pc' = "vehicles") =>
        \E resp \in TripResponses :
            local'.live_df =
                DeclaredRows(SelectSeq(TripFeed(resp.body, Midnight(clock)),
                                       LAMBDA e : e.has_trip_update),
                             Midnight(clock))]_vars


\* a row of the live frame with a live arrival epoch that is not before now
\* and without a row of the timetable for its trip and stop
LiveWithoutStatic(l, timetable_df, now_secs) ==
    /\ l.live_arrival_time # 0
    /\ l.live_arrival_time >= now_secs
    /\ <<l.trip_id, l.stop_id>> \notin Pairs(timetable_df)

---------------------------------------------------------------------------
(* StaticTimetable.py, the constructor of StaticMasterGTFSInfo as the       *)
(* source has it: the timestamps of stop_times.txt.                         *)

\* The hours, minutes and seconds of the time strings of stop_times.txt
TimeStrings == {0, 8, 23, 24, 32} \X {0, 14, 59} \X {0, 45}

\* The departure strings paired with them
DepartureStrings == {<<0, 0, 0>>, <<8, 15, 30>>, <<23, 59, 45>>, <<32, 15, 0>>}

\* A string of the column as read_csv left it
TimeString(hms) == [kind |-> "str", hms |-> hms]

\* pd.to_datetime(str, format="%H:%M:%S"): %H takes the hours 0 to 23 and the
\* parse raises ValueError on any other; the result is a Timestamp of that
\* time of day on 1900-01-01, not a number of seconds
to_datetime(str) ==
    IF str.hms[1] > 23 \/ str.hms[2] > 59 \/ str.hms[3] > 59
    THEN [raised |-> TRUE, value |-> str]
    ELSE [raised |-> FALSE,
          value |-> [kind |-> "Timestamp", date |-> <<1900, 1, 1>>,
                     hms |-> str.hms]]

\* Lines 34-37, "fix timestamps": arrival_time of stop_times is replaced by
\* its to_datetime; departure_time is not assigned to
fix_timestamps(row) ==
    LET arrival == to_datetime(row.arrival_time)
    IN  [raised |-> arrival.raised,
         row |-> [row EXCEPT !.arrival_time = arrival.value]]

\* StaticMasterGTFSInfo(url) on an archive whose stop_times.txt has one row
FixTimestamps(arrival, departure) ==
    /\ LET st == [arrival_time |-> TimeString(arrival),
                  departure_time |-> TimeString(departure)]
           r == fix_timestamps(st)
       IN  ret' = [Ret("fix_timestamps",
                       IF r.raised THEN "raised" ELSE "ok", <<r.row>>)
                     EXCEPT !.q = st]
    /\ UNCHANGED <<clock, ticks, throttle_lock, throttle_last, CachedGTFSData,
                   info_df, pc, local, hist, info, sensor_last>>

StaticNext ==
    \E arrival \in TimeStrings, departure \in DepartureStrings :
        FixTimestamps(arrival, departure)

StaticSpec == Init /\ [][StaticNext]_vars

\* HH*3600 + MM*60 + SS as an integer of the column
SecondsOfDay(str) ==
    [kind |-> "int", n |-> str.hms[1] * 3600 + str.hms[2] * 60 + str.hms[3]]

\* C23: the static build does not fail on a time string, whatever its hours,
\* and leaves HH*3600 + MM*60 + SS as an integer in the arrival column and in
\* the departure column.
C23_TimesBecomeSecondsOfDay ==
    ret.op = "fix_timestamps" =>
        /\ ret.outcome = "ok"
        /\ ret.rows[1].arrival_time = SecondsOfDay(ret.q.arrival_time)
        /\ ret.rows[1].departure_time = SecondsOfDay(ret.q.departure_time)


\* the value of an integer column of one side, as digits
SameNumber(value, n) == value = Str(n) \/ value = StrFloat(n)

\* the duplicated columns of a row are those of its live side
FromLive(row, live_df) ==
    \E i \in 1..Len(live_df) :
        /\ live_df[i].trip_id = row.trip_id
        /\ live_df[i].stop_id = row.stop_id
        /\ live_df[i].route_id = row.route_id
        /\ SameNumber(row.direction_id, live_df[i].direction_id)
        /\ SameNumber(row.stop_sequence, live_df[i].stop_sequence)

\* the duplicated columns of a row are those of the row of the timetable it
\* has its scheduled times from
FromStatic(row, timetable_df) ==
    \E j \in 1..Len(timetable_df) :
        /\ timetable_df[j].trip_id = row.trip_id
        /\ timetable_df[j].scheduled_arrival_time = row.scheduled_arrival_time
        /\ timetable_df[j].stop_id = row.stop_id
        /\ timetable_df[j].route_id = row.route_id
        /\ SameNumber(row.direction_id, timetable_df[j].direction_id)
        /\ SameNumber(row.stop_sequence, timetable_df[j].stop_sequence)

\* C24: in the frame the merge leaves, stop_id, route_id, direction_id and
\* stop_sequence of a row with a live side are those of the live side, and
\* those of a row of the timetable alone are the ones of the timetable, never
\* a placeholder for a missing value.
C24_DuplicatedColumnsCoalesce ==
    [][(pc = "merge" /\ pc' = "fill") =>
        \A k \in 1..Len(local'.df) :
            IF local'.df[k].source = "right_only"
            THEN FromStatic(local'.df[k], local.timetable_df)
            ELSE FromLive(local'.df[k], local.live_df)]_vars


\* C25: a pass starts only while no pass is in progress and the lock of the
\* throttle is free; while a pass is in progress the lock is held, and every
\* fetch and every write of the cache slot or of the board is a step of that
\* one pass, whichever sensors call update() in between.
C25_OnePassAtATime ==
    [][/\ hist'.passes # hist.passes
            => (pc = "idle" /\ ~throttle_lock /\ pc' = "static"
                /\ throttle_lock')
       /\ pc # "idle" => throttle_lock
       /\ (hist'.fetches # hist.fetches
           \/ CachedGTFSData' # CachedGTFSData
           \/ info_df' # info_df)
            => (pc # "idle" /\ throttle_lock
                /\ hist'.passes = hist.passes)]_vars

\* C25, witness: while the first pass is in progress, and so before any call
\* has completed, a call of update() has been dropped by the lock
C25_Witness ==
    /\ pc \in {"trips", "vehicles", "merge", "fill", "publish"}
    /\ throttle_lock
    /\ throttle_last = 0
    /\ ret.op = "update"
    /\ ret.outcome = "throttled"


\* no two rows of the frame have the same trip_id and stop_id
OneRowPerStop(rows) ==
    \A i \in 1..Len(rows) : \A j \in 1..Len(rows) :
        (rows[i].trip_id = rows[j].trip_id /\ rows[i].stop_id = rows[j].stop_id)
            => i = j

\* the scheduled arrival of a row with both sides is the one the timetable
\* has for the trip and the stop of the row
OwnSchedule(row, timetable_df) ==
    row.source = "both" =>
        \E j \in 1..Len(timetable_df) :
            /\ timetable_df[j].trip_id = row.trip_id
            /\ timetable_df[j].stop_id = row.stop_id
            /\ timetable_df[j].scheduled_arrival_time
                   = row.scheduled_arrival_time

\* C26: the frame a pass goes on with after the merge has at most one row
\* for a trip_id and stop_id, and a row that has a live and a static side has
\* the scheduled arrival of the timetable row of its own trip and stop.
C26_OneRecordPerTripAndStop ==
    [][(pc = "merge" /\ pc' = "fill") =>
        /\ OneRowPerStop(local'.df)
        /\ \A k \in 1..Len(local'.df) :
               OwnSchedule(local'.df[k], local.timetable_df)]_vars


---------------------------------------------------------------------------
(* Progress: the poll loop keeps calling update(), and a pass that has      *)
(* started goes on to its end, every fetch being bounded by its timeout.    *)

\* The calls of update() and the steps of the pass they start.  What a
\* sensor asks of the board between them is left out: it changes nothing
\* that the throttle or a pass reads.
PollNext ==
    \/ Tick
    \/ \E s \in Sensors : UpdateThrottled(s)
    \/ \E s \in Sensors : UpdateBegin(s)
    \/ LoadStatic
    \/ FetchTrips
    \/ FetchVehicles
    \/ Reconcile
    \/ FillEmpty
    \/ Publish

\* The merge of a pass in progress is carried out: Reconcile is enabled
\* whenever pc is "merge" and is the only step that leaves it, so this is
\* weak fairness of Reconcile, stated on the position of the pass
MergeIsCarriedOut == []<>(pc # "merge")

\* test.py 99-117 calls update() in every iteration of its loop, as the
\* framework does on its schedule: a call that the throttle lets through is
\* made in the end, and a pass in progress takes its next step
LiveSpec ==
    /\ Init
    /\ [][PollNext]_vars
    /\ WF_vars(\E s \in Sensors : UpdateBegin(s))
    /\ WF_vars(LoadStatic)
    /\ WF_vars(FetchTrips)
    /\ WF_vars(FetchVehicles)
    /\ MergeIsCarriedOut
    /\ WF_vars(FillEmpty)
    /\ WF_vars(Publish)

\* a call of update() is dropped only within the interval after a completed
\* pass, or while a pass is in progress
DroppedOnlyInWindow ==
    [][(ret'.op = "update" /\ ret'.outcome = "throttled") =>
        \/ throttle_lock
        \/ /\ throttle_last # 0
           /\ clock - throttle_last <= MIN_TIME_BETWEEN_UPDATES]_vars

\* a pass that fails records no completed call and frees the lock, so the
\* throttle lets the next call through
FailedPassOpensNoWindow ==
    [][(ret'.op = "pass" /\ ret'.outcome = "raised") =>
        /\ throttle_last' = throttle_last
        /\ ~throttle_lock'
        /\ pc' = "idle"
        /\ ~Throttled(throttle_lock', throttle_last', clock')]_vars

\* a pass in progress ends
PassEnds == []<>(pc = "idle")

\* No pass runs, the throttle would let a call through, and the budget of
\* passes is not spent
PollDue ==
    /\ pc = "idle"
    /\ ~Throttled(throttle_lock, throttle_last, clock)
    /\ hist.passes < MaxPasses

\* a call that is due is made: after the interval, or after a failed pass,
\* the next pass starts
DuePollRuns == []<>(~PollDue)

\* the board is published in the end, unless every pass of the budget failed
BoardRefreshed ==
    <>(info_df.columns \/ (hist.passes = MaxPasses /\ pc = "idle"))

=============================================================================
